---- MODULE Spec2Model ----
(***************************************************************************)
(* A model of result.cpp: the shared ErrorImpl records, the TypedError /   *)
(* GenericError wrappers over them, the Result<T, E> value-or-error union, *)
(* the TRY propagation macro and the GetIntFromFile demonstration.         *)
(*                                                                         *)
(* The program is single threaded and all its objects are locals, so the   *)
(* state is a frame of locals plus the heap of shared records.  Three      *)
(* families of operations act on the frame, one family at a time: the      *)
(* error wrappers (errors), the Result objects (results) and the           *)
(* GetIntFromFile pipeline (pc, filename, f, s, n, ret, calls).            *)
(***************************************************************************)
EXTENDS Integers, Sequences, FiniteSets, TLC

VARIABLES
    heap,       \* address -> ErrorImpl, the records owned by shared_ptr
    errors,     \* name -> wrapper, the declared error locals (e, g)
    results,    \* name -> Result<int, E>, the declared Result locals (r, c)
    obs,        \* what the last operation was given and what it returned
    pc,         \* position inside GetIntFromFile ("idle" outside it)
    filename,   \* GetIntFromFile's argument
    f,          \* its local f (<<>> until bound)
    s,          \* its local s (<<>> until bound)
    n,          \* its local n (<<>> until bound)
    ret,        \* the Result<int> it returned (<<>> until it returns)
    calls       \* the sub-calls it has evaluated, in order, with their results

demoVars == <<pc, filename, f, s, n, ret, calls>>
vars == <<heap, errors, results, obs, pc, filename, f, s, n, ret, calls>>

----------------------------------------------------------------------------
(* Bounds of the model. *)

MaxRecords == 3     \* heap slots (make_shared fails beyond them)
MaxLen == 3         \* length of the strings handed to ParseInt
MaxValue == 1       \* the T values are -1 .. MaxValue

(* Program constants. *)

NULL == 0                   \* nullptr / an empty shared_ptr
EEXIST == 17                \* <errno.h>
EINVAL == 22
ERANGE == 34
INT_MAX == 2147483647       \* <limits.h>
INT_MIN == -INT_MAX - 1

Addresses == 1..MaxRecords
Values == -1..MaxValue
Codes == {0, EINVAL}

----------------------------------------------------------------------------
(* SourceLocation: what __builtin_FILE/LINE/FUNCTION give as default       *)
(* arguments, which are evaluated at the call site of the constructor.     *)

SourceLocation(file, line, function) ==
    [file |-> file, line |-> line, function |-> function]

SiteOpenFile == SourceLocation("result.cpp", 266, "OpenFile")
SiteParseInt == SourceLocation("result.cpp", 282, "ParseInt")
Sites == {SiteOpenFile, SiteParseInt}

----------------------------------------------------------------------------
(* ErrorImpl and the heap. *)

(* ErrorImpl::ErrorImpl.  cause_ is what the virtual Cause() returns:      *)
(* nullptr for ErrorImpl itself.                                           *)
ErrorImpl(code, file, line, function) ==
    [code_ |-> code, file_ |-> file, line_ |-> line, function_ |-> function,
     cause_ |-> NULL]

(* A record that carries a cause: the override of Cause() that the         *)
(* two-argument constructors need.                                         *)
CausedErrorImpl(code, cause, file, line, function) ==
    [code_ |-> code, file_ |-> file, line_ |-> line, function_ |-> function,
     cause_ |-> cause]

CanAlloc(h) == \E a \in Addresses : a \notin DOMAIN h

Alloc(h) == CHOOSE a \in Addresses :
                a \notin DOMAIN h /\ \A b \in Addresses : b < a => b \in DOMAIN h

(* std::make_shared<ErrorImpl>(...) *)
MakeShared(h, impl) == [ptr |-> Alloc(h), heap |-> h @@ (Alloc(h) :> impl)]

RECURSIVE Closure(_, _, _)
Closure(h, set, k) ==
    IF k = 0 THEN set
    ELSE Closure(h, set \cup ({h[a].cause_ : a \in set} \ {NULL}), k - 1)

(* shared_ptr ownership: a record lives as long as a live wrapper holds it, *)
(* directly or as the cause of a record that lives.                         *)
Release(h, roots) ==
    LET live == Closure(h, roots \ {NULL}, MaxRecords)
    IN  [a \in DOMAIN h \cap live |-> h[a]]

----------------------------------------------------------------------------
(* BaseError, TypedError<ErrorCode>, GenericError. *)

TypedErrorDefault == [type |-> "TypedError", error_ |-> NULL]
GenericErrorDefault == [type |-> "GenericError", error_ |-> NULL]

(* BaseError(code, file, line, function), reached from TypedError(code) and *)
(* GenericError(code): the wrapper and the heap with the new record.       *)
BaseErrorNew(h, type, code, site) ==
    LET m == MakeShared(h, ErrorImpl(code, site.file, site.line, site.function))
    IN  [e |-> [type |-> type, error_ |-> m.ptr], heap |-> m.heap]

(* TypedError(code, cause): declared only. *)
TypedErrorCaused(h, code, cause, site) ==
    LET m == MakeShared(h, CausedErrorImpl(code, cause.error_, site.file,
                                           site.line, site.function))
    IN  [e |-> [type |-> "TypedError", error_ |-> m.ptr], heap |-> m.heap]

(* A conversion that would not take the record over. *)
GenericErrorFromDropsRecord(error) == GenericErrorDefault

(* GenericError(ErrorType error) : BaseError(error): the copy constructor  *)
(* of BaseError copies the shared_ptr.                                      *)
GenericErrorFrom(error) == [type |-> "GenericError", error_ |-> error.error_]

(* int RawCode() const *)
RawCode(h, e) == IF e.error_ = NULL THEN 0 ELSE h[e.error_].code_

(* TypedError::Code (a static_cast between int and an enum whose           *)
(* underlying type is int) and GenericError::Code.                         *)
Code(h, e) == RawCode(h, e)

(* A test that would look at the pointer alone. *)
OperatorBoolIgnoresCode(h, e) == e.error_ # NULL

(* explicit operator bool() const *)
OperatorBool(h, e) == e.error_ # NULL /\ h[e.error_].code_ # 0

(* bool operator!() const *)
OperatorNot(h, e) == ~OperatorBool(h, e)

(* std::string Message() const: return ""; *)
Message(h, e) == ""

(* File(), Line(), Function(): they dereference error_ unchecked. *)
File(h, e) == h[e.error_].file_
Line(h, e) == h[e.error_].line_
Function(h, e) == h[e.error_].function_
Location(h, e) == SourceLocation(File(h, e), Line(h, e), Function(h, e))

(* ErrorImpl::Cause through a record's address. *)
Cause(h, a) == h[a].cause_

(* A walk that would stop at the outer record. *)
StackDropsCause(h, a) == IF a = NULL THEN <<>> ELSE <<a>>

RECURSIVE Stack(_, _)
(* Stack(): declared only.  Outer record first, then its causes. *)
Stack(h, a) ==
    IF a = NULL THEN <<>> ELSE <<a>> \o Stack(h, Cause(h, a))

----------------------------------------------------------------------------
(* Result<T, ErrorType>.  value_ is the union's storage: <<v>> once a T   *)
(* has been constructed in it, <<>> while none has.                        *)

(* Result(T value) : value_(std::move(value)); error_ is default           *)
(* constructed.                                                            *)
ResultFromValue(value, type) ==
    [value_ |-> <<value>>,
     error_ |-> IF type = "TypedError" THEN TypedErrorDefault
                                       ELSE GenericErrorDefault]

(* Result(ErrorType error) : error_(std::move(error)) *)
ResultFromError(error) == [value_ |-> <<>>, error_ |-> error]

(* template Result(ErrorType2 error) : error_(error), ErrorType being      *)
(* GenericError.                                                           *)
ResultConverting(error) == [value_ |-> <<>>, error_ |-> GenericErrorFrom(error)]

(* bool OK() const: return !error_; *)
OK(h, r) == OperatorNot(h, r.error_)

(* const ErrorType& Error() const *)
Error(r) == r.error_

(* What reading value_ yields: the T in it, or, the storage holding no T,  *)
(* anything.                                                               *)
ReadValue(r, Domain) == IF r.value_ # <<>> THEN {r.value_[1]} ELSE Domain

(* A copy that would leave error_ default constructed. *)
ResultCopyDropsError(h, src, Domain) ==
    {[value_ |-> <<v>>, error_ |-> [src.error_ EXCEPT !.error_ = NULL]] :
        v \in ReadValue(src, Domain)}

(* Result(const Result& src): std::move of a const member copies it; the   *)
(* value is copy constructed from src.value_ when the error is falsy.      *)
ResultCopy(h, src, Domain) ==
    IF OperatorNot(h, src.error_)
    THEN {[value_ |-> <<v>>, error_ |-> src.error_] : v \in ReadValue(src, Domain)}
    ELSE {[value_ |-> <<>>, error_ |-> src.error_]}

(* ~Result(): whether it runs value_.~T() *)
DestroysValue(h, r) == OK(h, r)

(* Value(), both overloads: return value_; *)
Value(h, r, Domain) == ReadValue(r, Domain)

(* ValueOr(default_value) *)
ValueOr(h, r, default_value, Domain) ==
    IF OK(h, r) THEN Value(h, r, Domain) ELSE {default_value}

----------------------------------------------------------------------------
(* TRY(stmt), expanded in a function that returns Result<T, GenericError>. *)
(* `result` is stmt's value, evaluated once by  auto&& result = stmt;      *)

(* An expansion without the early return. *)
TRY_NeverReturns(h, result) == FALSE

(* if (!result.OK()) return ... *)
TRY_Returns(h, result) == ~OK(h, result)

(* return result.Error();  through the converting constructor *)
TRY_Return(result) == ResultConverting(Error(result))

(* std::move(result).Value();  the value of the statement expression *)
TRY_Value(h, result, Domain) == Value(h, result, Domain)

----------------------------------------------------------------------------
(* The demonstration: strings are sequences of characters. *)

file_content ==
    [number |-> <<"1", "0", "0">>, bad |-> <<"b", "a", "d">>, empty |-> <<>>]

Names == DOMAIN file_content \cup {"missing"}

(* File::File(name) *)
FileObject(name) == [name_ |-> name]

Files == {FileObject(name) : name \in Names}
Contents == {file_content[name] : name \in DOMAIN file_content}

(* OpenFile(name): the Result and the heap after it *)
OpenFile(h, name) ==
    IF name \in DOMAIN file_content
    THEN [r |-> ResultFromValue(FileObject(name), "TypedError"), heap |-> h]
    ELSE LET m == BaseErrorNew(h, "TypedError", EEXIST, SiteOpenFile)
         IN  [r |-> ResultFromError(m.e), heap |-> m.heap]

(* File::Read(): file_content.at(name_) throws when the name is absent *)
FileReadThrows(file) == file.name_ \notin DOMAIN file_content

FileRead(file) == ResultFromValue(file_content[file.name_], "TypedError")

(* The character at s[i]; "" stands for the terminating NUL. *)
CharAt(str, i) == IF i \in DOMAIN str THEN str[i] ELSE ""

IsSpace(c) == c \in {" ", "\t", "\n", "\r", "\f"}

HexDigits == <<"0", "1", "2", "3", "4", "5", "6", "7", "8", "9",
               "a", "b", "c", "d", "e", "f">>
HexDigitsUpper == <<"0", "1", "2", "3", "4", "5", "6", "7", "8", "9",
                    "A", "B", "C", "D", "E", "F">>

(* The value of c as a digit; 99 when it is none (of a base up to 16). *)
DigitValue(c) ==
    IF \E i \in DOMAIN HexDigits : HexDigits[i] = c
    THEN (CHOOSE i \in DOMAIN HexDigits : HexDigits[i] = c) - 1
    ELSE IF \E i \in DOMAIN HexDigitsUpper : HexDigitsUpper[i] = c
    THEN (CHOOSE i \in DOMAIN HexDigitsUpper : HexDigitsUpper[i] = c) - 1
    ELSE 99

RECURSIVE SkipSpace(_, _)
SkipSpace(str, i) ==
    IF IsSpace(CharAt(str, i)) THEN SkipSpace(str, i + 1) ELSE i

RECURSIVE ScanDigits(_, _, _)
ScanDigits(str, i, base) ==
    IF DigitValue(CharAt(str, i)) < base THEN ScanDigits(str, i + 1, base) ELSE i

RECURSIVE Accumulate(_, _, _, _, _)
Accumulate(str, i, stop, base, acc) ==
    IF i >= stop THEN acc
    ELSE Accumulate(str, i + 1, stop, base, acc * base + DigitValue(str[i]))

(* strtol(s, &end, 0): the number, the index end points at, and whether a  *)
(* conversion was performed.  The strings of the model are too short to    *)
(* leave the range of long.                                                *)
Strtol(str) ==
    LET i0 == SkipSpace(str, 1)
        neg == CharAt(str, i0) = "-"
        i1 == IF CharAt(str, i0) \in {"-", "+"} THEN i0 + 1 ELSE i0
        hex == /\ CharAt(str, i1) = "0"
               /\ CharAt(str, i1 + 1) \in {"x", "X"}
               /\ DigitValue(CharAt(str, i1 + 2)) < 16
        base == IF hex THEN 16 ELSE IF CharAt(str, i1) = "0" THEN 8 ELSE 10
        start == IF hex THEN i1 + 2 ELSE i1
        stop == ScanDigits(str, start, base)
        mag == Accumulate(str, start, stop, base, 0)
    IN  IF stop > start
        THEN [n |-> IF neg THEN -mag ELSE mag, end |-> stop, converted |-> TRUE]
        ELSE [n |-> 0, end |-> 1, converted |-> FALSE]

(* errno after strtol: it stays 0, but where no conversion is performed a  *)
(* C library may set EINVAL.                                               *)
StrtolErrno(str) == IF Strtol(str).converted THEN {0} ELSE {0, EINVAL}

(* ParseInt(s) up to its return statement: the int, or the errno *)
ParseIntErrno(str) ==
    LET t == Strtol(str)
    IN  {IF e = 0
         THEN IF CharAt(str, t.end) # ""
              THEN [ok |-> FALSE, n |-> 0, errno |-> EINVAL]
              ELSE IF t.n > INT_MAX \/ t.n < INT_MIN
              THEN [ok |-> FALSE, n |-> 0, errno |-> ERANGE]
              ELSE [ok |-> TRUE, n |-> t.n, errno |-> 0]
         ELSE [ok |-> FALSE, n |-> 0, errno |-> e] : e \in StrtolErrno(str)}

(* ParseInt(s): the Results it may return, each with the heap after it *)
ParseInt(h, str) ==
    {IF o.ok
     THEN [r |-> ResultFromValue(o.n, "TypedError"), heap |-> h]
     ELSE LET m == BaseErrorNew(h, "TypedError", o.errno, SiteParseInt)
          IN  [r |-> ResultFromError(m.e), heap |-> m.heap] :
        o \in ParseIntErrno(str)}

----------------------------------------------------------------------------
(* The frame. *)

Init ==
    /\ heap = <<>>
    /\ errors = <<>>
    /\ results = <<>>
    /\ obs = [op |-> "none"]
    /\ pc = "idle"
    /\ filename = ""
    /\ f = <<>>
    /\ s = <<>>
    /\ n = <<>>
    /\ ret = <<>>
    /\ calls = <<>>

(* One family of locals is live at a time. *)
ErrorScope == results = <<>> /\ pc = "idle"
ResultScope == errors = <<>> /\ pc = "idle"
DemoScope == errors = <<>> /\ results = <<>>

----------------------------------------------------------------------------
(* Operations on error wrappers.  The frame declares two of them:          *)
(*     TypedError<ErrnoType> e;   GenericError g;                          *)
(* errors maps the name of each declared local to its wrapper.             *)

TypeOf(x) == IF x = "e" THEN "TypedError" ELSE "GenericError"

(* TypedError<ErrnoType> e;  and  GenericError g; *)
NewDefaultError(x) ==
    /\ ErrorScope /\ x \notin DOMAIN errors
    /\ LET w == IF x = "e" THEN TypedErrorDefault ELSE GenericErrorDefault
       IN  /\ errors' = errors @@ (x :> w)
           /\ obs' = [op |-> "default", ret |-> w]
    /\ UNCHANGED <<heap, results, demoVars>>

(* TypedError<ErrnoType> e(code);  and  GenericError g(code);  at `site` *)
NewError(x, code, site) ==
    /\ ErrorScope /\ x \notin DOMAIN errors /\ CanAlloc(heap)
    /\ LET m == BaseErrorNew(heap, TypeOf(x), code, site)
       IN  /\ heap' = m.heap
           /\ errors' = errors @@ (x :> m.e)
           /\ obs' = [op |-> "new", code |-> code, site |-> site, ret |-> m.e]
    /\ UNCHANGED <<results, demoVars>>

(* e = TypedError<ErrnoType>(code, e);  at `site`: e is replaced by the    *)
(* error that wraps it.                                                    *)
NewCausedError(code, site) ==
    /\ ErrorScope /\ "e" \in DOMAIN errors /\ CanAlloc(heap)
    /\ LET m == TypedErrorCaused(heap, code, errors["e"], site)
       IN  /\ heap' = m.heap
           /\ errors' = [errors EXCEPT !["e"] = m.e]
           /\ obs' = [op |-> "wrap", code |-> code, site |-> site,
                      cause |-> errors["e"], ret |-> m.e]
    /\ UNCHANGED <<results, demoVars>>

(* GenericError g(e); *)
Erase ==
    /\ ErrorScope /\ "e" \in DOMAIN errors /\ "g" \notin DOMAIN errors
    /\ LET w == GenericErrorFrom(errors["e"])
       IN  /\ errors' = errors @@ ("g" :> w)
           /\ obs' = [op |-> "erase", arg |-> errors["e"], ret |-> w]
    /\ UNCHANGED <<heap, results, demoVars>>

(* the locals go out of scope: the wrappers are destroyed and the last     *)
(* holder of each record frees it.                                         *)
EndErrorScope ==
    /\ ErrorScope
    /\ errors # <<>>
    /\ errors' = <<>>
    /\ heap' = Release(heap, {})
    /\ obs' = [op |-> "none"]
    /\ UNCHANGED <<results, demoVars>>

(* if (x) ... *)
CallBool(x) ==
    /\ ErrorScope /\ x \in DOMAIN errors
    /\ obs' = [op |-> "bool", self |-> errors[x],
               ret |-> OperatorBool(heap, errors[x])]
    /\ UNCHANGED <<heap, errors, results, demoVars>>

(* !x *)
CallNot(x) ==
    /\ ErrorScope /\ x \in DOMAIN errors
    /\ obs' = [op |-> "not", self |-> errors[x],
               ret |-> OperatorNot(heap, errors[x])]
    /\ UNCHANGED <<heap, errors, results, demoVars>>

(* x.Code() *)
CallCode(x) ==
    /\ ErrorScope /\ x \in DOMAIN errors
    /\ obs' = [op |-> "Code", self |-> errors[x],
               ret |-> Code(heap, errors[x])]
    /\ UNCHANGED <<heap, errors, results, demoVars>>

(* x.Message() *)
CallMessage(x) ==
    /\ ErrorScope /\ x \in DOMAIN errors
    /\ obs' = [op |-> "Message", self |-> errors[x],
               ret |-> Message(heap, errors[x])]
    /\ UNCHANGED <<heap, errors, results, demoVars>>

(* x.File(), x.Line(), x.Function(): on an empty wrapper they dereference  *)
(* a null pointer, and the build may crash or read anything.               *)
CallLocation(x) ==
    /\ ErrorScope /\ x \in DOMAIN errors
    /\ IF errors[x].error_ # NULL
       THEN obs' = [op |-> "Location", self |-> errors[x], crashed |-> FALSE,
                    ret |-> Location(heap, errors[x])]
       ELSE \E crashed \in BOOLEAN, any \in Sites :
                obs' = [op |-> "Location", self |-> errors[x],
                        crashed |-> crashed, ret |-> any]
    /\ UNCHANGED <<heap, errors, results, demoVars>>

(* x.Stack() *)
CallStack(x) ==
    /\ ErrorScope /\ x \in DOMAIN errors
    /\ obs' = [op |-> "Stack", self |-> errors[x],
               ret |-> Stack(heap, errors[x].error_)]
    /\ UNCHANGED <<heap, errors, results, demoVars>>

NextError ==
    \/ \E x \in {"e", "g"} : NewDefaultError(x)
    \/ \E x \in {"e", "g"}, code \in Codes, site \in Sites : NewError(x, code, site)
    \/ \E code \in Codes, site \in Sites : NewCausedError(code, site)
    \/ Erase
    \/ EndErrorScope
    \/ \E x \in {"e", "g"} : CallBool(x)
    \/ \E x \in {"e", "g"} : CallNot(x)
    \/ \E x \in {"e", "g"} : CallCode(x)
    \/ \E x \in {"e", "g"} : CallMessage(x)
    \/ \E x \in {"e", "g"} : CallLocation(x)
    \/ \E x \in {"e", "g"} : CallStack(x)

----------------------------------------------------------------------------
(* Operations on Result<int, E> objects.  The frame declares two:          *)
(*     Result<int, E> r = ...;   Result<int, E> c(r);                      *)

ErrorTypes == {"TypedError", "GenericError"}

(* The arguments of the temporary error a Result is built from: none       *)
(* (E()), or a code and the call site (E(code)).                           *)
ErrorArgs == {<<>>} \cup {<<code, site>> : code \in Codes, site \in Sites}

TempError(h, type, arg) ==
    IF arg = <<>>
    THEN [e |-> IF type = "TypedError" THEN TypedErrorDefault
                                       ELSE GenericErrorDefault,
          heap |-> h]
    ELSE BaseErrorNew(h, type, arg[1], arg[2])

ResultRoots(rs) == {rs[x].error_.error_ : x \in DOMAIN rs}

(* Result<int, E> r = value; *)
NewResultValue(value, type) ==
    /\ ResultScope /\ "r" \notin DOMAIN results
    /\ LET new == ResultFromValue(value, type)
       IN  /\ results' = results @@ ("r" :> new)
           /\ obs' = [op |-> "Result(value)", arg |-> value, ret |-> new]
    /\ UNCHANGED <<heap, errors, demoVars>>

(* Result<int, E> r = E(...); *)
NewResultError(type, arg) ==
    /\ ResultScope /\ "r" \notin DOMAIN results
    /\ arg # <<>> => CanAlloc(heap)
    /\ LET t == TempError(heap, type, arg)
           new == ResultFromError(t.e)
       IN  /\ heap' = t.heap
           /\ results' = results @@ ("r" :> new)
           /\ obs' = [op |-> "Result(error)", arg |-> t.e, ret |-> new]
    /\ UNCHANGED <<errors, demoVars>>

(* Result<int, GenericError> r = TypedError<ErrnoType>(...); *)
NewResultConverted(arg) ==
    /\ ResultScope /\ "r" \notin DOMAIN results
    /\ arg # <<>> => CanAlloc(heap)
    /\ LET t == TempError(heap, "TypedError", arg)
           new == ResultConverting(t.e)
       IN  /\ heap' = t.heap
           /\ results' = results @@ ("r" :> new)
           /\ obs' = [op |-> "Result(error2)", arg |-> t.e, ret |-> new]
    /\ UNCHANGED <<errors, demoVars>>

(* Result<int, E> c(r); *)
CopyResult ==
    /\ ResultScope /\ "r" \in DOMAIN results /\ "c" \notin DOMAIN results
    /\ \E new \in ResultCopy(heap, results["r"], Values) :
          /\ results' = results @@ ("c" :> new)
          /\ obs' = [op |-> "Result(src)", src |-> results["r"], ret |-> new]
    /\ UNCHANGED <<heap, errors, demoVars>>

(* a Result goes out of scope, the last one declared first *)
DestroyResult(x) ==
    /\ ResultScope /\ x \in DOMAIN results
    /\ x = "r" => "c" \notin DOMAIN results
    /\ results' = [y \in DOMAIN results \ {x} |-> results[y]]
    /\ heap' = Release(heap, ResultRoots(results'))
    /\ obs' = [op |-> "~Result",
               constructed |-> results[x].value_ # <<>>,
               destroyed |-> DestroysValue(heap, results[x])]
    /\ UNCHANGED <<errors, demoVars>>

(* x.OK() *)
CallOK(x) ==
    /\ ResultScope /\ x \in DOMAIN results
    /\ obs' = [op |-> "OK", self |-> results[x], ret |-> OK(heap, results[x])]
    /\ UNCHANGED <<heap, errors, results, demoVars>>

(* x.Error() *)
CallError(x) ==
    /\ ResultScope /\ x \in DOMAIN results
    /\ obs' = [op |-> "Error", self |-> results[x], ret |-> Error(results[x])]
    /\ UNCHANGED <<heap, errors, results, demoVars>>

(* x.Value() and *x.operator->(): neither checks OK(), neither aborts *)
CallValue(x, how) ==
    /\ ResultScope /\ x \in DOMAIN results
    /\ \E v \in Value(heap, results[x], Values) :
          obs' = [op |-> how, self |-> results[x], aborted |-> FALSE,
                  held |-> results[x].value_ # <<>>, ret |-> v]
    /\ UNCHANGED <<heap, errors, results, demoVars>>

(* x.ValueOr(default_value) *)
CallValueOr(x, default_value) ==
    /\ ResultScope /\ x \in DOMAIN results
    /\ \E v \in ValueOr(heap, results[x], default_value, Values) :
          obs' = [op |-> "ValueOr", self |-> results[x],
                  arg |-> default_value, aborted |-> FALSE,
                  read |-> OK(heap, results[x]), ret |-> v]
    /\ UNCHANGED <<heap, errors, results, demoVars>>

NextResult ==
    \/ \E value \in Values, type \in ErrorTypes : NewResultValue(value, type)
    \/ \E type \in ErrorTypes, arg \in ErrorArgs : NewResultError(type, arg)
    \/ \E arg \in ErrorArgs : NewResultConverted(arg)
    \/ CopyResult
    \/ \E x \in {"r", "c"} : DestroyResult(x)
    \/ \E x \in {"r", "c"} : CallOK(x)
    \/ \E x \in {"r", "c"} : CallError(x)
    \/ \E x \in {"r", "c"}, how \in {"Value", "operator->"} : CallValue(x, how)
    \/ \E x \in {"r", "c"}, d \in Values : CallValueOr(x, d)

----------------------------------------------------------------------------
(* GetIntFromFile, its caller, and ParseInt(str, default_value). *)

Alphabet == {"0", "1", "b", "x", "-", " "}

(* The strings ParseInt(str, default_value) is called with *)
Strings == UNION {[1..k -> Alphabet] : k \in 0..MaxLen}

(* What a sub-call did, kept for the record of calls *)
CallRecord(fn, h, result) ==
    [fn |-> fn, ok |-> OK(h, result), value_ |-> result.value_,
     error_ |-> result.error_.error_,
     code |-> RawCode(h, result.error_),
     site |-> IF result.error_.error_ = NULL THEN <<>>
              ELSE <<Location(h, result.error_)>>]

(* r = GetIntFromFile(name) is entered *)
Call(name) ==
    /\ DemoScope /\ pc = "idle"
    /\ pc' = "open"
    /\ filename' = name
    /\ obs' = [op |-> "GetIntFromFile", arg |-> name]
    /\ UNCHANGED <<heap, errors, results, f, s, n, ret, calls>>

(* auto&& f = TRY(OpenFile(filename)); *)
StepOpenFile ==
    /\ pc = "open"
    /\ LET o == OpenFile(heap, filename)
       IN  /\ calls' = Append(calls, CallRecord("OpenFile", o.heap, o.r))
           /\ IF TRY_Returns(o.heap, o.r)
              THEN /\ ret' = <<TRY_Return(o.r)>>
                   /\ pc' = "done"
                   /\ heap' = o.heap
                   /\ UNCHANGED f
              ELSE /\ \E v \in TRY_Value(o.heap, o.r, Files) : f' = <<v>>
                   /\ pc' = "read"
                   /\ heap' = Release(o.heap, {})
                   /\ UNCHANGED ret
    /\ UNCHANGED <<errors, results, obs, filename, s, n>>

(* auto&& s = TRY(f.Read());  an exception leaves main and terminates *)
StepRead ==
    /\ pc = "read"
    /\ IF FileReadThrows(f[1])
       THEN /\ pc' = "terminated"
            /\ UNCHANGED <<heap, s, ret, calls>>
       ELSE LET r == FileRead(f[1])
            IN  /\ calls' = Append(calls, CallRecord("Read", heap, r))
                /\ IF TRY_Returns(heap, r)
                   THEN /\ ret' = <<TRY_Return(r)>>
                        /\ pc' = "done"
                        /\ UNCHANGED s
                   ELSE /\ \E v \in TRY_Value(heap, r, Contents) : s' = <<v>>
                        /\ pc' = "parse"
                        /\ UNCHANGED ret
                /\ UNCHANGED heap
    /\ UNCHANGED <<errors, results, obs, filename, f, n>>

(* auto&& n = TRY(ParseInt(s)); *)
StepParseInt ==
    /\ pc = "parse"
    /\ \E o \in ParseInt(heap, s[1]) :
          /\ calls' = Append(calls, CallRecord("ParseInt", o.heap, o.r))
          /\ IF TRY_Returns(o.heap, o.r)
             THEN /\ ret' = <<TRY_Return(o.r)>>
                  /\ pc' = "done"
                  /\ heap' = o.heap
                  /\ UNCHANGED n
             ELSE /\ \E v \in TRY_Value(o.heap, o.r, Values) : n' = <<v>>
                  /\ pc' = "return"
                  /\ heap' = Release(o.heap, {})
                  /\ UNCHANGED ret
    /\ UNCHANGED <<errors, results, obs, filename, f, s>>

(* return n; *)
StepReturn ==
    /\ pc = "return"
    /\ ret' = <<ResultFromValue(n[1], "GenericError")>>
    /\ pc' = "done"
    /\ UNCHANGED <<heap, errors, results, obs, filename, f, s, n, calls>>

(* main: if (r.Error()) print where and what; then print r.ValueOr(-1) *)
MainPrint ==
    /\ pc = "done"
    /\ \E v \in ValueOr(heap, ret[1], -1, Values) :
          obs' = [op |-> "main",
                  printed |-> IF OperatorBool(heap, Error(ret[1]))
                              THEN <<Location(heap, Error(ret[1])),
                                     Code(heap, Error(ret[1]))>>
                              ELSE <<>>,
                  valueOr |-> v]
    /\ UNCHANGED <<heap, errors, results, demoVars>>

(* the caller is done with what was returned: r goes out of scope *)
EndCall ==
    /\ pc \in {"done", "parsed"}
    /\ pc' = "idle"
    /\ filename' = ""
    /\ f' = <<>> /\ s' = <<>> /\ n' = <<>> /\ ret' = <<>> /\ calls' = <<>>
    /\ heap' = Release(heap, {})
    /\ obs' = [op |-> "none"]
    /\ UNCHANGED <<errors, results>>

(* ParseInt(str, default_value): ParseInt(str).ValueOr(default_value) *)
ParseIntOr ==
    /\ DemoScope /\ pc = "idle" /\ CanAlloc(heap)
    /\ \E str \in Strings, default_value \in Values :
          \E o \in ParseInt(heap, str) :
             \E v \in ValueOr(o.heap, o.r, default_value, Values) :
                obs' = [op |-> "ParseInt(str, default_value)", str |-> str,
                        arg |-> default_value, ok |-> OK(o.heap, o.r),
                        ret |-> v]
    /\ pc' = "parsed"
    /\ UNCHANGED <<heap, errors, results, filename, f, s, n, ret, calls>>

NextDemo ==
    \/ \E name \in Names : Call(name)
    \/ StepOpenFile
    \/ StepRead
    \/ StepParseInt
    \/ StepReturn
    \/ MainPrint
    \/ EndCall
    \/ ParseIntOr

Next == NextError \/ NextResult \/ NextDemo

Spec == Init /\ [][Next]_vars

----------------------------------------------------------------------------
(* The claims. *)

(* strerror(3) for the codes the program uses, and for ENOENT. *)
Strerror(code) ==
    CASE code = 0 -> "Success"
      [] code = 2 -> "No such file or directory"
      [] code = EEXIST -> "File exists"
      [] code = EINVAL -> "Invalid argument"
      [] code = ERANGE -> "Numerical result out of range"
      [] OTHER -> "Unknown error"

Truthy(e) == e.error_ # NULL /\ heap[e.error_].code_ # 0

\* C1: every Result holds exactly one of a constructed T and a truthy
\* error: never both, never a falsy error in the error arm; OK() is true
\* exactly when a T was constructed; the destructor destroys the value
\* exactly when one was constructed.
C1_ExactlyOneArm ==
    /\ \A x \in DOMAIN results :
          /\ (results[x].value_ # <<>>) # Truthy(results[x].error_)
          /\ OK(heap, results[x]) = (results[x].value_ # <<>>)
    /\ obs.op = "~Result" => obs.destroyed = obs.constructed

\* C2: in GetIntFromFile each TRY evaluates its sub-call once, in order;
\* after a sub-call that fails the function has returned that sub-call's
\* error and nothing after it has run; after one that succeeds the local
\* bound by the TRY is the unwrapped value; so the error returned is the
\* error of the first failing sub-call, and without one the value returned
\* is the parsed number.
C2_TryPropagates ==
    LET order == <<"OpenFile", "Read", "ParseInt">>
        last == Len(calls)
    IN  /\ last <= Len(order)
        /\ \A k \in DOMAIN calls : calls[k].fn = order[k]
        /\ \A k \in DOMAIN calls : k < last => calls[k].ok
        /\ (last >= 1 /\ ~calls[last].ok) =>
              /\ pc = "done"
              /\ ret # <<>>
              /\ ~OK(heap, ret[1])
              /\ Error(ret[1]).error_ = calls[last].error_
        /\ (last >= 1 /\ calls[1].ok) => f = calls[1].value_
        /\ (last >= 2 /\ calls[2].ok) => s = calls[2].value_
        /\ (last >= 3 /\ calls[3].ok) => n = calls[3].value_
        /\ pc \in {"read", "parse", "return"} => ret = <<>>
        /\ (pc = "done" /\ calls[last].ok) =>
              /\ last = Len(order)
              /\ OK(heap, ret[1])
              /\ ret[1].value_ = calls[last].value_

C2_Witness ==
    /\ pc = "done"
    /\ Len(calls) = 3
    /\ ~calls[3].ok
    /\ ~OK(heap, ret[1])

\* C3: Value() and operator-> called on a Result whose OK() is false abort,
\* and return nothing to the caller.
C3_ValueAbortsWhenNotOK ==
    (obs.op \in {"Value", "operator->"} /\ ~OK(heap, obs.self)) => obs.aborted

\* C4: GetIntFromFile("number") is OK with value 100, the content read
\* being "100"; GetIntFromFile("bad") fails in the parse step, with the code
\* of an invalid format and the location of the error constructed in
\* ParseInt; GetIntFromFile("missing") fails in the lookup with the code of
\* "not found", and neither Read nor ParseInt runs.
C4_Pipeline ==
    pc = "done" =>
        /\ filename = "number" =>
              /\ s = <<<<"1", "0", "0">>>>
              /\ OK(heap, ret[1])
              /\ ret[1].value_ = <<100>>
        /\ filename = "bad" =>
              /\ Len(calls) = 3 /\ calls[1].ok /\ calls[2].ok
              /\ ~OK(heap, ret[1])
              /\ Strerror(Code(heap, Error(ret[1]))) = "Invalid argument"
              /\ Function(heap, Error(ret[1])) = "ParseInt"
              /\ Line(heap, Error(ret[1])) = SiteParseInt.line
              /\ File(heap, Error(ret[1])) = SiteParseInt.file
        /\ filename = "missing" =>
              /\ Len(calls) = 1
              /\ ~OK(heap, ret[1])
              /\ Strerror(Code(heap, Error(ret[1]))) = "No such file or directory"

\* C5: GenericError(e) holds the record e holds, so it reports e's code
\* and, where there is a record, e's File/Line/Function and cause; and the
\* error GetIntFromFile returns after a TRY has propagated a sub-call's
\* TypedError is a GenericError with the code and the location that the
\* sub-call constructed.
C5_ErasureKeepsData ==
    /\ obs.op = "erase" =>
          /\ obs.ret.type = "GenericError"
          /\ obs.ret.error_ = obs.arg.error_
          /\ Code(heap, obs.ret) = Code(heap, obs.arg)
          /\ obs.arg.error_ # NULL =>
                /\ Location(heap, obs.ret) = Location(heap, obs.arg)
                /\ Cause(heap, obs.ret.error_) = Cause(heap, obs.arg.error_)
    /\ (pc = "done" /\ ~calls[Len(calls)].ok) =>
          /\ Error(ret[1]).type = "GenericError"
          /\ Code(heap, Error(ret[1])) = calls[Len(calls)].code
          /\ <<Location(heap, Error(ret[1]))>> = calls[Len(calls)].site

C5_Witness ==
    /\ obs.op = "erase"
    /\ Truthy(obs.arg)
    /\ Cause(heap, obs.arg.error_) # NULL
    /\ Code(heap, obs.ret) = EINVAL

\* C6: for a truthy error e, Result(e).OK() is false and Result(e).Error()
\* is e: the same record, so the same code, location and cause; and a copy
\* of such a Result holds the same error, the source being left as it was.
C6_ErrorRoundTrip ==
    /\ (obs.op = "Result(error)" /\ Truthy(obs.arg)) =>
          /\ ~OK(heap, obs.ret)
          /\ Error(obs.ret) = obs.arg
          /\ Code(heap, Error(obs.ret)) = Code(heap, obs.arg)
          /\ Location(heap, Error(obs.ret)) = Location(heap, obs.arg)
          /\ Cause(heap, Error(obs.ret).error_) = Cause(heap, obs.arg.error_)
    /\ (obs.op = "Result(src)" /\ Truthy(Error(obs.src))) =>
          /\ ~OK(heap, obs.ret)
          /\ Error(obs.ret) = Error(obs.src)
          /\ Code(heap, Error(obs.ret)) = Code(heap, Error(obs.src))
          /\ Location(heap, Error(obs.ret)) = Location(heap, Error(obs.src))
          /\ results["r"] = obs.src
          /\ results["c"] = obs.ret

C6_Witness ==
    /\ obs.op = "Result(src)"
    /\ Truthy(Error(obs.src))
    /\ Code(heap, Error(obs.ret)) = EINVAL

\* C7: ValueOr(default) returns the held value when OK() is true and the
\* default otherwise, whatever the Result was constructed from, and reads
\* no value that was not constructed.
C7_ValueOr ==
    obs.op = "ValueOr" =>
        /\ obs.read => obs.self.value_ # <<>>
        /\ IF OK(heap, obs.self)
           THEN <<obs.ret>> = obs.self.value_
           ELSE obs.ret = obs.arg

\* C8: bool(e) is true exactly when e holds a record whose code is not 0,
\* !e is its negation, and a default constructed wrapper holds no record,
\* is falsy and has Code() 0.
C8_Truthiness ==
    /\ obs.op = "bool" => obs.ret = Truthy(obs.self)
    /\ obs.op = "not" => obs.ret = ~Truthy(obs.self)
    /\ obs.op = "default" => obs.ret.error_ = NULL
    /\ (obs.op = "Code" /\ obs.self.error_ = NULL) => obs.ret = 0
    /\ (obs.op = "Code" /\ obs.self.error_ # NULL) =>
          obs.ret = heap[obs.self.error_].code_

C8_Witness ==
    /\ obs.op = "bool"
    /\ obs.self.error_ # NULL
    /\ heap[obs.self.error_].code_ = 0
    /\ obs.ret = FALSE

ChainDepth(a) == Cardinality(Closure(heap, {a} \ {NULL}, MaxRecords))

\* C9: TypedError(code, cause) makes a new record whose Cause() is the
\* record of cause, with its code and location; Stack() lists the outer
\* record, then the cause of each record listed, to the end of the chain,
\* so as many records as the chain holds.
C9_CauseChain ==
    /\ (obs.op = "wrap" /\ obs.cause.error_ # NULL) =>
          LET c == Cause(heap, obs.ret.error_)
          IN  /\ c # NULL
              /\ c # obs.ret.error_
              /\ c = obs.cause.error_
              /\ heap[c].code_ = Code(heap, obs.cause)
              /\ SourceLocation(heap[c].file_, heap[c].line_, heap[c].function_)
                    = Location(heap, obs.cause)
              /\ heap[obs.ret.error_].code_ = obs.code
    /\ obs.op = "Stack" =>
          /\ Len(obs.ret) = ChainDepth(obs.self.error_)
          /\ obs.ret # <<>> => obs.ret[1] = obs.self.error_
          /\ \A k \in DOMAIN obs.ret :
                IF k < Len(obs.ret)
                THEN obs.ret[k + 1] = heap[obs.ret[k]].cause_
                ELSE heap[obs.ret[k]].cause_ = NULL

C9_Witness ==
    /\ obs.op = "Stack"
    /\ Len(obs.ret) = MaxRecords

\* C10: Message() of a wrapper that holds a record is the string the
\* domain's registry gives for the code, or else the code in digits; only a
\* default constructed wrapper has the empty message.
C10_MessageResolves ==
    (obs.op = "Message" /\ obs.self.error_ # NULL) => obs.ret # ""

====
